---- MODULE Spec2Model ----
(***************************************************************************)
(* codex-eyes: a PTY wrapper that supervises one Codex child process and   *)
(* restarts it with an image attachment when the child prints a marker,    *)
(* plus the MCP tool endpoint that queues image requests.                  *)
(*                                                                         *)
(* Strings are TLA+ strings; paths follow node:path POSIX semantics        *)
(* (path.sep = "/").  Time is the value of Date.now() in milliseconds.     *)
(***************************************************************************)
EXTENDS Integers, Sequences, FiniteSets, TLC

VARIABLES
    host,               \* "starting" | "running" | "exited"   (the wrapper process)
    exitCode,           \* code passed to process.exit, -1 while the host lives
    initialArgs,        \* process.argv.slice(2)
    isTTY,              \* process.stdin.isTTY
    rawModeEnabled,     \* let rawModeEnabled
    rawMode,            \* the terminal's raw mode as set by process.stdin.setRawMode
    stderr,             \* last diagnostic written to process.stderr ("" if none)
    codexProcess,       \* let codexProcess: 0 is null, else an index into procs
    procs,              \* every pty child spawned so far, in spawn order
    outputTail,         \* let outputTail
    restartTimestamps,  \* let restartTimestamps
    restartInFlight,    \* let restartInFlight
    lastRestart,        \* the steps the most recent restart performed, with its locals
    restarts,           \* number of calls of restartWithRequestedImage so far
    clock,              \* wall clock, in ticks of TickMs
    requestsFile,       \* .codex-eyes/requests.jsonl, as its sequence of lines
    files,              \* the paths for which fs.existsSync is true
    call                \* the most recent call of a pure function: [fn, arg, result]

vars == <<host, exitCode, initialArgs, isTTY, rawModeEnabled, rawMode, stderr,
          codexProcess, procs, outputTail, restartTimestamps, restartInFlight,
          lastRestart, restarts, clock, requestsFile, files, call>>

-----------------------------------------------------------------------------
(* Program constants                                                        *)

WAIT_MARKER == "<<WAITING_FOR_IMAGE>>"
MAX_RESTARTS == 5
RESTART_WINDOW_MS == 5 * 60 * 1000
ALLOWED_EXTENSIONS == {".png", ".jpg", ".jpeg", ".webp"}
NUDGE_MESSAGE == "Requested image attached"
repoRoot == "/repo"

-----------------------------------------------------------------------------
(* Bounds of the model                                                      *)

MaxClock == 3          \* the clock stops after this many ticks
MaxSessions == 3       \* no restart is triggered once this many children exist
MaxLog == 3            \* the tool endpoint stops appending at this many lines
MaxInput == 1          \* local input chunks forwarded to one child
MaxBurstSessions == 7  \* as MaxSessions, for the restart-storm specification
MaxLines == 3          \* longest request log handed to the reader
MaxMonitorSessions == 3
MaxIOSessions == 3 \* as MaxSessions, for the output-monitor specification

-----------------------------------------------------------------------------
(* JavaScript string primitives                                             *)

Char(s, i) == SubSeq(s, i, i)

startsWith(s, p) == Len(p) <= Len(s) /\ SubSeq(s, 1, Len(p)) = p

endsWith(s, p) == Len(p) <= Len(s) /\ SubSeq(s, Len(s) - Len(p) + 1, Len(s)) = p

includes(s, m) ==
    \E i \in 1..(Len(s) - Len(m) + 1) : SubSeq(s, i, i + Len(m) - 1) = m

\* s.slice(-n)
sliceLast(s, n) == IF Len(s) > n THEN SubSeq(s, Len(s) - n + 1, Len(s)) ELSE s

IsSpace(c) == c \in {" ", "\t", "\r", "\n"}

RECURSIVE trimStart(_)
trimStart(s) ==
    IF Len(s) > 0 /\ IsSpace(Char(s, 1)) THEN trimStart(SubSeq(s, 2, Len(s))) ELSE s

RECURSIVE trimEnd(_)
trimEnd(s) ==
    IF Len(s) > 0 /\ IsSpace(Char(s, Len(s)))
    THEN trimEnd(SubSeq(s, 1, Len(s) - 1)) ELSE s

trim(s) == trimEnd(trimStart(s))

UpperAlpha == "ABCDEFGHIJKLMNOPQRSTUVWXYZ"
LowerAlpha == "abcdefghijklmnopqrstuvwxyz"

lowerChar(c) ==
    IF \E i \in 1..26 : Char(UpperAlpha, i) = c
    THEN Char(LowerAlpha, CHOOSE i \in 1..26 : Char(UpperAlpha, i) = c)
    ELSE c

RECURSIVE toLowerCase(_)
toLowerCase(s) ==
    IF s = "" THEN "" ELSE lowerChar(Char(s, 1)) \o toLowerCase(SubSeq(s, 2, Len(s)))

\* s.split(sep) for a one-character separator
RECURSIVE split(_, _)
split(s, sep) ==
    IF ~\E i \in 1..Len(s) : Char(s, i) = sep
    THEN <<s>>
    ELSE LET i == CHOOSE k \in 1..Len(s) :
                    Char(s, k) = sep /\ \A j \in 1..(k - 1) : Char(s, j) # sep
         IN  <<SubSeq(s, 1, i - 1)>> \o split(SubSeq(s, i + 1, Len(s)), sep)

\* segs.join(sep)
RECURSIVE join(_, _)
join(segs, sep) ==
    IF segs = <<>> THEN ""
    ELSE IF Len(segs) = 1 THEN segs[1]
    ELSE segs[1] \o sep \o join(Tail(segs), sep)

-----------------------------------------------------------------------------
(* node:path, POSIX flavour                                                 *)

isAbsolute(p) == Len(p) > 0 /\ Char(p, 1) = "/"

\* normalizeString: drop "" and ".", let ".." remove the segment before it
RECURSIVE normalizeSegments(_, _)
normalizeSegments(segs, acc) ==
    IF segs = <<>> THEN acc
    ELSE LET h == Head(segs)
             next == IF h = "" \/ h = "." THEN acc
                     ELSE IF h = ".."
                          THEN (IF acc = <<>> THEN acc ELSE SubSeq(acc, 1, Len(acc) - 1))
                          ELSE Append(acc, h)
         IN  normalizeSegments(Tail(segs), next)

\* path.resolve(from, to) with from an absolute directory
resolve(from, to) ==
    LET full == IF isAbsolute(to) THEN to ELSE from \o "/" \o to
    IN  "/" \o join(normalizeSegments(split(full, "/"), <<>>), "/")

\* path.extname(p)
extname(p) ==
    LET parts == split(p, "/")
        base  == parts[Len(parts)]
        dots  == {i \in 1..Len(base) : Char(base, i) = "."}
        last  == CHOOSE i \in dots : \A j \in dots : j <= i
    IN  IF dots = {} \/ base = ".." THEN ""
        ELSE IF last = 1 THEN ""
        ELSE SubSeq(base, last, Len(base))

RECURSIVE commonPrefixLen(_, _)
commonPrefixLen(a, b) ==
    IF a = <<>> \/ b = <<>> \/ Head(a) # Head(b) THEN 0
    ELSE 1 + commonPrefixLen(Tail(a), Tail(b))

\* path.relative(from, to) for two resolved absolute paths
relative(from, to) ==
    LET f == normalizeSegments(split(from, "/"), <<>>)
        t == normalizeSegments(split(to, "/"), <<>>)
        n == commonPrefixLen(f, t)
        ups == [i \in 1..(Len(f) - n) |-> ".."]
    IN  join(ups \o SubSeq(t, n + 1, Len(t)), "/")

-----------------------------------------------------------------------------
(* Path validation: resolveSafeImagePath (wrapper) and                      *)
(* toSafeRepoRelativePath (tool endpoint)                                   *)

existsSync(p) == p \in files

\* const rootWithSep = repoRoot.endsWith(path.sep) ? repoRoot : `${repoRoot}${path.sep}`
rootWithSep == IF endsWith(repoRoot, "/") THEN repoRoot ELSE repoRoot \o "/"

\* Mutant: the prefix test without the separator.
insideRoot_NoSeparator(resolved) == startsWith(resolved, repoRoot)

\* resolved === repoRoot || resolved.startsWith(rootWithSep)
insideRoot(resolved) == resolved = repoRoot \/ startsWith(resolved, rootWithSep)

\* ALLOWED_EXTENSIONS.has(path.extname(resolved).toLowerCase())
allowedExtension(resolved) == toLowerCase(extname(resolved)) \in ALLOWED_EXTENSIONS

\* rel.startsWith(".") ? rel : `./${rel}`
dotSlash(rel) == IF startsWith(rel, ".") THEN rel ELSE "./" \o rel

\* path.relative(repoRoot, resolved).split(path.sep).join("/")
relativeToRoot(resolved) == join(split(relative(repoRoot, resolved), "/"), "/")

Returned(v) == [ok |-> TRUE, value |-> v, error |-> ""]
Thrown(msg) == [ok |-> FALSE, value |-> "", error |-> msg]

resolveSafeImagePath(requestedPath) ==
    LET resolved == resolve(repoRoot, requestedPath)
    IN  IF isAbsolute(requestedPath)
        THEN Thrown("Image path must be relative to repository root.")
        ELSE IF ~insideRoot(resolved)
        THEN Thrown("Path traversal rejected: image path escapes repository root.")
        ELSE IF ~allowedExtension(resolved)
        THEN Thrown("Unsupported image extension: " \o toLowerCase(extname(resolved)))
        ELSE IF ~existsSync(resolved)
        THEN Thrown("Requested image does not exist: " \o resolved)
        ELSE Returned(dotSlash(relativeToRoot(resolved)))

\* A tool argument: a JavaScript value that is a string or is not one.
StringArg(s) == [type |-> "string", s |-> s]
NoArg == [type |-> "undefined", s |-> ""]

toSafeRepoRelativePath(requestPath) ==
    LET resolved == resolve(repoRoot, requestPath.s)
    IN  IF requestPath.type # "string" \/ trim(requestPath.s) = ""
        THEN Thrown("path must be a non-empty string")
        ELSE IF isAbsolute(requestPath.s)
        THEN Thrown("path must be relative to repository root")
        ELSE IF ~insideRoot(resolved)
        THEN Thrown("path traversal is not allowed")
        ELSE IF ~allowedExtension(resolved)
        THEN Thrown("unsupported extension; allowed: .png, .jpg, .jpeg, .webp")
        ELSE IF ~existsSync(resolved)
        THEN Thrown("file does not exist: " \o requestPath.s)
        ELSE Returned(dotSlash(relativeToRoot(resolved)))

-----------------------------------------------------------------------------
(* The request log and its reader: getLastRequestedPath                     *)
(*                                                                         *)
(* A line of the log is either text that is not JSON (kind "text", with    *)
(* its characters in raw) or the serialization of a JSON value: null, a    *)
(* number, or an object whose path member is absent ("undefined"), a       *)
(* number or a string.                                                     *)

TextLine(s) == [kind |-> "text", raw |-> s, ts |-> 0, ptype |-> "undefined", path |-> ""]
NullLine == [kind |-> "null", raw |-> "", ts |-> 0, ptype |-> "undefined", path |-> ""]
NumberLine == [kind |-> "number", raw |-> "", ts |-> 0, ptype |-> "undefined", path |-> ""]
ObjectLine(ts, ptype, p) ==
    [kind |-> "object", raw |-> "", ts |-> ts, ptype |-> ptype, path |-> p]

\* JSON.stringify({ ts, path })
JSONstringify(ts, p) == ObjectLine(ts, "string", p)

\* line.trim() !== ""
notBlank(line) == line.kind # "text" \/ trim(line.raw) # ""

\* JSON.parse(line): throws on text that is not JSON
JSONparse(line) == [threw |-> line.kind = "text", row |-> line]

\* row && typeof row.path === "string" && row.path.trim() !== ""
usableRow(row) ==
    /\ row.kind = "object"
    /\ row.ptype = "string"
    /\ trim(row.path) # ""

\* for (let i = lines.length - 1; i >= 0; i -= 1) { try ... catch {} }
RECURSIVE scanBackwards(_, _)
scanBackwards(lines, i) ==
    IF i < 1
    THEN Thrown("No valid image request found in .codex-eyes/requests.jsonl.")
    ELSE LET parsed == JSONparse(lines[i])
         IN  IF ~parsed.threw /\ usableRow(parsed.row)
             THEN Returned(parsed.row.path)
             ELSE scanBackwards(lines, i - 1)

\* Mutant: only the newest line is examined.
getLastRequestedPath_NewestOnly(contents) ==
    LET lines == SelectSeq(contents, notBlank)
    IN  scanBackwards(IF lines = <<>> THEN lines ELSE <<lines[Len(lines)]>>,
                      IF lines = <<>> THEN 0 ELSE 1)

getLastRequestedPath(contents) ==
    LET lines == SelectSeq(contents, notBlank)
    IN  scanBackwards(lines, Len(lines))

-----------------------------------------------------------------------------
(* The restart rate limiter: enforceRestartRateLimit                        *)

\* One clock tick is half the restart window; Date.now() in milliseconds.
TickMs == RESTART_WINDOW_MS \div 2
Now == clock * TickMs

\* restartTimestamps.filter((ts) => now - ts < RESTART_WINDOW_MS)
inWindow(now, ts) == now - ts < RESTART_WINDOW_MS

\* Mutant: one attempt more than the maximum let through.
overLimit_OneMore(timestamps) == Len(timestamps) > MAX_RESTARTS + 1

\* Mutant: the limit reached counts as exceeded.
overLimit_AtLimit(timestamps) == Len(timestamps) >= MAX_RESTARTS

\* restartTimestamps.length > MAX_RESTARTS
overLimit(timestamps) == Len(timestamps) > MAX_RESTARTS

enforceRestartRateLimit(timestamps, now) ==
    LET kept   == SelectSeq(timestamps, LAMBDA ts : inWindow(now, ts))
        pushed == Append(kept, now)
    IN  [timestamps |-> pushed,
         error |-> IF overLimit(pushed) THEN "Too many restarts (5 in 300000ms)." ELSE ""]

-----------------------------------------------------------------------------
(* The terminal session manager: spawnCodex and the pty child               *)

\* An exit code as node-pty reports it: a number, or no number at all.
NumberCode(n) == [type |-> "number", n |-> n]
NoCode == [type |-> "undefined", n |-> 0]
NotExited == [type |-> "running", n |-> 0]

\* A pty child as the wrapper sees it; exit is the code its exit notification carried.
Proc(args) == [args |-> args, killed |-> FALSE, exit |-> NotExited,
               written |-> <<>>, resizes |-> 0]

SpawnError ==
    "Failed to start codex from PATH. Install Codex CLI or adjust PATH before running wrapper."
KillError == "kill failed"
WriteError == "write failed"

\* spawnCodex(args): the new child list and the index of the new child, or the error
spawnCodex(children, args, spawnOk) ==
    IF spawnOk
    THEN [procs |-> Append(children, Proc(args)), proc |-> Len(children) + 1, error |-> ""]
    ELSE [procs |-> children, proc |-> 0, error |-> SpawnError]

\* proc.kill()
kill(children, p) == [children EXCEPT ![p].killed = TRUE]

\* proc.write(data)
write(children, p, data) == [children EXCEPT ![p].written = Append(@, data)]

\* proc.resize(cols, rows)
resize(children, p) == [children EXCEPT ![p].resizes = 1]

\* Mutant: the terminal is left as it is.
restoreTerminalState_Skip(enabled, tty, mode) == mode

\* restoreTerminalState(): the terminal's raw mode afterwards
restoreTerminalState(enabled, tty, mode) == IF enabled /\ tty THEN FALSE ELSE mode

\* process.exit(code): the "exit" listener restores the terminal, then the host is gone
processExit(code, enabled, mode) ==
    /\ host' = "exited"
    /\ exitCode' = code
    /\ rawMode' = restoreTerminalState(enabled, isTTY, mode)

-----------------------------------------------------------------------------
(* The restart orchestrator: restartWithRequestedImage                      *)

\* Which calls into node-pty throw during one restart: none, or the first that does.
EnvOutcomes ==
    {[spawnOk |-> TRUE, killOk |-> TRUE, writeOk |-> TRUE],
     [spawnOk |-> FALSE, killOk |-> TRUE, writeOk |-> TRUE],
     [spawnOk |-> TRUE, killOk |-> FALSE, writeOk |-> TRUE],
     [spawnOk |-> TRUE, killOk |-> TRUE, writeOk |-> FALSE]}

\* Mutant: the limiter consulted after the reader and the validator.
RestartSteps_LimiterLast == <<"lookup", "validate", "admit", "spawn", "kill", "nudge">>

\* The statements of the try block, in program order.
RestartSteps == <<"admit", "lookup", "validate", "spawn", "kill", "nudge">>

\* Mutant: the command line the README documents.
restartArgs_Readme(safeRelativePath) == <<"resume", "--last", "-i", safeRelativePath>>

\* Mutant: the original launch arguments carried over.
restartArgs_KeepInitial(safeRelativePath) ==
    initialArgs \o <<"--continue", "-i", safeRelativePath>>

\* spawnCodex(["--continue", "-i", safeRelativePath])
restartArgs(safeRelativePath) == <<"--continue", "-i", safeRelativePath>>

\* One statement of the try block, on the locals and globals st; env tells which
\* calls into node-pty throw.  st.error # "" means the statement threw.
execStep(step, st, env) ==
    CASE step = "admit" ->
            LET r == enforceRestartRateLimit(st.timestamps, Now)
            IN  [st EXCEPT !.timestamps = r.timestamps, !.error = r.error]
      [] step = "lookup" ->
            LET r == getLastRequestedPath(requestsFile)
            IN  [st EXCEPT !.requestedPath = r.value, !.error = r.error]
      [] step = "validate" ->
            LET r == resolveSafeImagePath(st.requestedPath)
            IN  [st EXCEPT !.safeRelativePath = r.value, !.error = r.error]
      [] step = "spawn" ->
            LET r == spawnCodex(st.procs, restartArgs(st.safeRelativePath), env.spawnOk)
            IN  IF r.error = ""
                THEN [st EXCEPT !.old = st.codexProcess, !.codexProcess = r.proc,
                                !.procs = r.procs]
                ELSE [st EXCEPT !.old = st.codexProcess, !.error = r.error]
      [] step = "kill" ->
            IF st.old = 0 THEN st
            ELSE IF env.killOk THEN [st EXCEPT !.procs = kill(st.procs, st.old)]
            ELSE [st EXCEPT !.error = KillError]
      [] step = "nudge" ->
            IF env.writeOk
            THEN [st EXCEPT !.procs = write(st.procs, st.codexProcess, NUDGE_MESSAGE \o "\r")]
            ELSE [st EXCEPT !.error = WriteError]

\* The try block: statements run in order until one throws.
RECURSIVE runSteps(_, _, _)
runSteps(steps, st, env) ==
    IF steps = <<>> \/ st.error # "" THEN st
    ELSE runSteps(Tail(steps),
                  execStep(Head(steps), [st EXCEPT !.trace = Append(@, Head(steps))], env),
                  env)

NoRestart == [trace |-> <<>>, error |-> "", requestedPath |-> "", safeRelativePath |-> "",
              old |-> 0, codexProcess |-> 0, log |-> <<>>, at |-> 0]

restartWithRequestedImage ==
    \E env \in EnvOutcomes :
    \E st \in {runSteps(RestartSteps,
                        [timestamps |-> restartTimestamps, requestedPath |-> "",
                         safeRelativePath |-> "", old |-> 0, codexProcess |-> codexProcess,
                         procs |-> procs, error |-> "", trace |-> <<>>],
                        env)} :
        /\ outputTail' = ""
        /\ restartTimestamps' = st.timestamps
        /\ procs' = st.procs
        /\ codexProcess' = st.codexProcess
        /\ restarts' = restarts + 1
        /\ lastRestart' = [trace |-> st.trace, error |-> st.error,
                           requestedPath |-> st.requestedPath,
                           safeRelativePath |-> st.safeRelativePath,
                           old |-> st.old, codexProcess |-> st.codexProcess,
                           log |-> requestsFile, at |-> Now]
        /\ IF st.error = ""
           THEN /\ restartInFlight' = FALSE
                /\ UNCHANGED <<host, exitCode, rawMode, stderr>>
           ELSE /\ restartInFlight' = TRUE
                /\ stderr' = "[codex-eyes] " \o st.error \o "\n"
                /\ processExit(1, rawModeEnabled, rawMode)
        /\ UNCHANGED <<initialArgs, isTTY, rawModeEnabled, clock, requestsFile, files>>

-----------------------------------------------------------------------------
(* The output monitor: onCodexOutput                                        *)

\* Mutant: each chunk examined on its own.
appendTail_NoCarry(tail, data) == data

\* outputTail = `${outputTail}${data}`
appendTail(tail, data) == tail \o data

\* Mutant: a tail of one marker length only.
retainTail_MarkerLength(s) ==
    IF Len(s) > Len(WAIT_MARKER) THEN sliceLast(s, Len(WAIT_MARKER)) ELSE s

\* outputTail.length > WAIT_MARKER.length * 8 ? outputTail.slice(-WAIT_MARKER.length * 8)
retainTail(s) ==
    IF Len(s) > Len(WAIT_MARKER) * 8 THEN sliceLast(s, Len(WAIT_MARKER) * 8) ELSE s

\* Mutant: the marker test without the in-flight guard.
markerSeen_NoGuard(tail) == includes(tail, WAIT_MARKER)

\* !restartInFlight && outputTail.includes(WAIT_MARKER)
markerSeen(tail) == ~restartInFlight /\ includes(tail, WAIT_MARKER)

\* proc.onData((data) => onCodexOutput(data)) for child p
onCodexOutput(p, data) ==
    /\ host = "running"
    /\ p \in 1..Len(procs)
    /\ procs[p].exit = NotExited
    /\ call' = [fn |-> "onCodexOutput", arg |-> <<p, data>>, result |-> Returned(outputTail)]
    /\ \E tail \in {retainTail(appendTail(outputTail, data))} :
           IF markerSeen(tail)
           THEN restartWithRequestedImage
           ELSE /\ outputTail' = tail
                /\ UNCHANGED <<host, exitCode, initialArgs, isTTY, rawModeEnabled, rawMode,
                               stderr, codexProcess, procs, restartTimestamps,
                               restartInFlight, lastRestart, restarts, clock,
                               requestsFile, files>>

-----------------------------------------------------------------------------
(* Host start-up, child exit, passthrough and signals                       *)

\* The module's top level: setupInputPassthrough(), then the initial spawn.
Launch(spawnOk) ==
    /\ host = "starting"
    /\ rawModeEnabled' = isTTY
    /\ LET r == spawnCodex(procs, initialArgs, spawnOk)
       IN  IF r.error = ""
           THEN /\ procs' = r.procs
                /\ codexProcess' = r.proc
                /\ host' = "running"
                /\ rawMode' = isTTY
                /\ UNCHANGED <<exitCode, stderr>>
           ELSE /\ stderr' = "[codex-eyes] " \o r.error \o "\n"
                /\ processExit(1, isTTY, isTTY)
                /\ UNCHANGED <<procs, codexProcess>>
    /\ UNCHANGED <<initialArgs, isTTY, outputTail, restartTimestamps, restartInFlight,
                   lastRestart, restarts, clock, requestsFile, files, call>>

\* typeof exitCode === "number" ? exitCode : 0
hostCodeFor(code) == IF code.type = "number" THEN code.n ELSE 0

\* Mutant: any child's exit counts unless a restart is in flight.
exitIgnored_NoIdentity(p) == restartInFlight

\* proc !== codexProcess || restartInFlight: the notification is ignored
exitIgnored(p) == p # codexProcess \/ restartInFlight

\* proc.onExit(({ exitCode }) => ...) for child p
onExit(p, code) ==
    /\ host = "running"
    /\ p \in 1..Len(procs)
    /\ procs[p].exit = NotExited
    /\ procs' = [procs EXCEPT ![p].exit = code]
    /\ IF exitIgnored(p)
       THEN UNCHANGED <<host, exitCode, rawMode>>
       ELSE processExit(hostCodeFor(code), rawModeEnabled, rawMode)
    /\ UNCHANGED <<initialArgs, isTTY, rawModeEnabled, stderr, codexProcess, outputTail,
                   restartTimestamps, restartInFlight, lastRestart, restarts, clock,
                   requestsFile, files, call>>

\* Mutant: input goes to the child the listener was set up with.
onStdinData_FirstChild(data) ==
    /\ host = "running"
    /\ codexProcess # 0
    /\ Len(procs[1].written) < MaxInput + 1
    /\ procs' = write(procs, 1, data)
    /\ UNCHANGED <<host, exitCode, initialArgs, isTTY, rawModeEnabled, rawMode, stderr,
                   codexProcess, outputTail, restartTimestamps, restartInFlight,
                   lastRestart, restarts, clock, requestsFile, files, call>>

\* process.stdin.on("data", ...)
onStdinData(data) ==
    /\ host = "running"
    /\ codexProcess # 0
    /\ Len(procs[codexProcess].written) < MaxInput + 1
    /\ procs' = write(procs, codexProcess, data)
    /\ UNCHANGED <<host, exitCode, initialArgs, isTTY, rawModeEnabled, rawMode, stderr,
                   codexProcess, outputTail, restartTimestamps, restartInFlight,
                   lastRestart, restarts, clock, requestsFile, files, call>>

\* process.stdout.on("resize", ...), registered only on a terminal
onResize ==
    /\ host = "running"
    /\ isTTY
    /\ codexProcess # 0
    /\ procs' = resize(procs, codexProcess)
    /\ UNCHANGED <<host, exitCode, initialArgs, isTTY, rawModeEnabled, rawMode, stderr,
                   codexProcess, outputTail, restartTimestamps, restartInFlight,
                   lastRestart, restarts, clock, requestsFile, files, call>>

\* Mutant: the host exits before it gets to the child.
SignalSteps_ExitFirst == <<"exit", "kill", "restore">>

\* The statements of a signal handler, in program order.
SignalSteps == <<"kill", "restore", "exit">>

\* One statement of a signal handler; nothing runs once process.exit was called.
signalStep(step, st) ==
    CASE step = "kill" ->
            IF codexProcess # 0 THEN [st EXCEPT !.procs = kill(st.procs, codexProcess)]
            ELSE st
      [] step = "restore" ->
            [st EXCEPT !.rawMode = restoreTerminalState(rawModeEnabled, isTTY, st.rawMode)]
      [] step = "exit" -> [st EXCEPT !.exited = TRUE]

RECURSIVE runSignal(_, _)
runSignal(steps, st) ==
    IF steps = <<>> \/ st.exited THEN st
    ELSE runSignal(Tail(steps),
                   signalStep(Head(steps), [st EXCEPT !.trace = Append(@, Head(steps))]))

\* process.on("SIGINT" | "SIGTERM", ...)
onSignal(code) ==
    /\ host = "running"
    /\ \E st \in {runSignal(SignalSteps, [procs |-> procs, rawMode |-> rawMode,
                                          exited |-> FALSE, trace |-> <<>>])} :
          /\ procs' = st.procs
          /\ call' = [fn |-> "onSignal", arg |-> <<code>>,
                      result |-> Returned(join(st.trace, ","))]
          /\ IF st.exited
             THEN processExit(code, rawModeEnabled, st.rawMode)
             ELSE rawMode' = st.rawMode /\ UNCHANGED <<host, exitCode>>
    /\ UNCHANGED <<initialArgs, isTTY, rawModeEnabled, stderr, codexProcess, outputTail,
                   restartTimestamps, restartInFlight, lastRestart, restarts, clock,
                   requestsFile, files>>

SIGINT == onSignal(130)
SIGTERM == onSignal(143)

-----------------------------------------------------------------------------
(* The tool endpoint: the CallToolRequestSchema handler                     *)

\* Mutant: the request is logged before it is validated.
callTool_LogFirst(toolName, arg) ==
    /\ host = "running"
    /\ LET safe == IF toolName # "request_image"
                   THEN Thrown("Unknown tool: " \o toolName)
                   ELSE toSafeRepoRelativePath(arg)
       IN  /\ call' = [fn |-> "callTool", arg |-> <<toolName, arg>>, result |-> safe]
           /\ requestsFile' = IF toolName = "request_image"
                              THEN Append(requestsFile, JSONstringify(Now, arg.s))
                              ELSE requestsFile
    /\ UNCHANGED <<host, exitCode, initialArgs, isTTY, rawModeEnabled, rawMode, stderr,
                   codexProcess, procs, outputTail, restartTimestamps, restartInFlight,
                   lastRestart, restarts, clock, files>>

callTool(toolName, arg) ==
    /\ host = "running"
    /\ LET safe == IF toolName # "request_image"
                   THEN Thrown("Unknown tool: " \o toolName)
                   ELSE toSafeRepoRelativePath(arg)
       IN  /\ call' = [fn |-> "callTool", arg |-> <<toolName, arg>>, result |-> safe]
           /\ requestsFile' = IF safe.ok
                              THEN Append(requestsFile, JSONstringify(Now, safe.value))
                              ELSE requestsFile
    /\ UNCHANGED <<host, exitCode, initialArgs, isTTY, rawModeEnabled, rawMode, stderr,
                   codexProcess, procs, outputTail, restartTimestamps, restartInFlight,
                   lastRestart, restarts, clock, files>>

-----------------------------------------------------------------------------
(* Time                                                                     *)

Tick ==
    /\ host = "running"
    /\ clock < MaxClock
    /\ clock' = clock + 1
    /\ UNCHANGED <<host, exitCode, initialArgs, isTTY, rawModeEnabled, rawMode, stderr,
                   codexProcess, procs, outputTail, restartTimestamps, restartInFlight,
                   lastRestart, restarts, requestsFile, files, call>>

-----------------------------------------------------------------------------
(* Inputs                                                                   *)

RECURSIVE repeat(_, _)
repeat(s, n) ==
    IF n = 0 THEN ""
    ELSE LET half == repeat(s, n \div 2)
         IN  half \o half \o (IF n % 2 = 1 THEN s ELSE "")

\* Output longer than the retained tail, holding no part of the marker.
Filler == repeat("x", Len(WAIT_MARKER) * 8)

ReqA == ObjectLine(1, "string", "./a.png")
ReqB == ObjectLine(2, "string", "img/b.JPG")
ReqUp == ObjectLine(3, "string", "../x.png")
ReqGone == ObjectLine(4, "string", "gone.png")
Garbage == TextLine("not json")

AllFiles == {"/repo/a.png", "/repo/img/b.JPG", "/repo/.hid.png", "/repo/.d/a.webp",
             "/repo/notes.txt", "/repo/dir.png", "/x.png", "/etc/c.png",
             "/repo2/a.png"}

ExitCodes == {NumberCode(0), NumberCode(7), NoCode}
SplitHead == "<<WAITING_"
SplitTail == "FOR_IMAGE>>\r\n"
\* With SplitTail this fills the retained tail exactly.
PaddedHead ==
    repeat("x", Len(WAIT_MARKER) * 8 - Len(SplitHead) - Len(SplitTail)) \o SplitHead
MonitorChunks == {SplitHead, SplitTail, WAIT_MARKER, Filler,
                  PaddedHead,
                  WAIT_MARKER \o repeat("x", Len(WAIT_MARKER) * 8)}
LogLines == {ReqA, ReqB, Garbage, TextLine(""), TextLine("  "), NullLine, NumberLine,
             ObjectLine(5, "undefined", ""), ObjectLine(6, "number", ""),
             ObjectLine(7, "string", ""), ObjectLine(8, "string", "  ")}
Candidates == {"a.png", "./a.png", "img/b.JPG", "img/../a.png", "a.png/", "/repo/a.png",
               "/etc/c.png", "../x.png", "img/../../x.png", "../repo2/a.png",
               "../repo/a.png", "notes.txt", "img", ".png", ".hid.png", ".d/a.webp",
               "gone.jpeg", "dir.png", ".", "", "a.gif", "..", "/x.tiff", "../notes.txt"}
ValidatorFileSystems == {AllFiles, {}, AllFiles \ {"/repo/a.png", "/x.png"}}

InitialArgsChoices == {<<>>, <<"--model", "o3">>}
BurstLogs == {<<>>, <<ReqB, Garbage>>, <<ReqUp>>, <<ReqGone>>}
InitialLogs == {<<>>, <<ReqB, Garbage>>, <<ReqA, ReqUp>>, <<ReqGone>>}
FileSystems == {AllFiles}
Chunks == {WAIT_MARKER, Filler}
ToolNames == {"request_image", "list_images"}
ToolArgs == {StringArg("a.png"), StringArg("../x.png"), NoArg}

-----------------------------------------------------------------------------
(* The wrapper and the tool endpoint running side by side                   *)

\* The module's declarations: nothing spawned, nothing read yet.
Declared(argvs, ttys, logs, fileSystems) ==
    /\ host = "starting"
    /\ exitCode = -1
    /\ initialArgs \in argvs
    /\ isTTY \in ttys
    /\ rawModeEnabled = FALSE
    /\ rawMode = FALSE
    /\ stderr = ""
    /\ codexProcess = 0
    /\ procs = <<>>
    /\ outputTail = ""
    /\ restartTimestamps = <<>>
    /\ restartInFlight = FALSE
    /\ lastRestart = NoRestart
    /\ restarts = 0
    /\ clock = 0
    /\ requestsFile \in logs
    /\ files \in fileSystems
    /\ call = [fn |-> "none", arg |-> <<>>, result |-> Returned("")]

Init == Declared(InitialArgsChoices, BOOLEAN, InitialLogs, FileSystems)

Start == \E ok \in BOOLEAN : Launch(ok)

Output ==
    /\ Len(procs) < MaxSessions
    /\ \E p \in 1..Len(procs), data \in Chunks : onCodexOutput(p, data)

ChildExit == \E p \in 1..Len(procs), code \in ExitCodes : onExit(p, code)

Stdin == onStdinData("y")

ToolCall ==
    /\ Len(requestsFile) < MaxLog
    /\ \E name \in ToolNames, arg \in ToolArgs : callTool(name, arg)

Next ==
    \/ Start
    \/ Output
    \/ ChildExit
    \/ ToolCall

Spec == Init /\ [][Next]_vars

-----------------------------------------------------------------------------
(* Restart storms: the wrapper alone, with time passing                     *)

InitRestart == Declared({<<>>}, BOOLEAN, BurstLogs, FileSystems)

Burst ==
    /\ Len(procs) < MaxBurstSessions
    /\ \E data \in Chunks : onCodexOutput(codexProcess, data)

NextRestart ==
    \/ Start
    \/ Burst
    \/ Tick

SpecRestart == InitRestart /\ [][NextRestart]_vars

-----------------------------------------------------------------------------
(* The output monitor under arbitrary chunking of the child's output        *)

InitMonitor == Declared({<<>>}, {FALSE}, {<<ReqA>>}, FileSystems)

Feed ==
    /\ Len(procs) < MaxMonitorSessions
    /\ \E data \in MonitorChunks : onCodexOutput(codexProcess, data)

NextMonitor ==
    \/ Start
    \/ Feed

SpecMonitor == InitMonitor /\ [][NextMonitor]_vars

-----------------------------------------------------------------------------
(* The wrapper at the terminal: input, resizes and signals around restarts  *)

InitIO == Declared({<<>>}, BOOLEAN, {<<ReqB, Garbage>>}, FileSystems)

Relay ==
    /\ Len(procs) < MaxIOSessions
    /\ \E data \in Chunks : onCodexOutput(codexProcess, data)

Resize == onResize

Interrupt == SIGINT

Terminate == SIGTERM

NextIO ==
    \/ Start
    \/ Relay
    \/ Stdin
    \/ Resize
    \/ ChildExit
    \/ Interrupt
    \/ Terminate

SpecIO == InitIO /\ [][NextIO]_vars

-----------------------------------------------------------------------------
(* The reader and the validators as functions of their inputs               *)

RECURSIVE LogsUpTo(_)
LogsUpTo(n) ==
    IF n = 0 THEN {<<>>}
    ELSE LET shorter == LogsUpTo(n - 1)
         IN  shorter \cup {Append(log, line) : log \in shorter, line \in LogLines}

InitReader == Declared({<<>>}, {FALSE}, LogsUpTo(MaxLines), FileSystems)

\* const requestedPath = getLastRequestedPath()
ReadLog ==
    /\ call.fn = "none"
    /\ call' = [fn |-> "getLastRequestedPath", arg |-> requestsFile,
                result |-> getLastRequestedPath(requestsFile)]
    /\ UNCHANGED <<host, exitCode, initialArgs, isTTY, rawModeEnabled, rawMode, stderr,
                   codexProcess, procs, outputTail, restartTimestamps, restartInFlight,
                   lastRestart, restarts, clock, requestsFile, files>>

SpecReader == InitReader /\ [][ReadLog]_vars

InitValidator == Declared({<<>>}, {FALSE}, {<<>>}, ValidatorFileSystems)

\* const safeRelativePath = resolveSafeImagePath(requestedPath)
ValidateRequested ==
    /\ \E requestedPath \in Candidates :
          call' = [fn |-> "resolveSafeImagePath", arg |-> requestedPath,
                   result |-> resolveSafeImagePath(requestedPath)]
    /\ UNCHANGED <<host, exitCode, initialArgs, isTTY, rawModeEnabled, rawMode, stderr,
                   codexProcess, procs, outputTail, restartTimestamps, restartInFlight,
                   lastRestart, restarts, clock, requestsFile, files>>

\* const safePath = toSafeRepoRelativePath(args.path)
ValidateToolArg ==
    /\ \E requestPath \in {StringArg(c) : c \in Candidates} \cup {NoArg, StringArg("  ")} :
          call' = [fn |-> "toSafeRepoRelativePath", arg |-> requestPath,
                   result |-> toSafeRepoRelativePath(requestPath)]
    /\ UNCHANGED <<host, exitCode, initialArgs, isTTY, rawModeEnabled, rawMode, stderr,
                   codexProcess, procs, outputTail, restartTimestamps, restartInFlight,
                   lastRestart, restarts, clock, requestsFile, files>>

NextValidator ==
    \/ ValidateRequested
    \/ ValidateToolArg

SpecValidator == InitValidator /\ [][NextValidator]_vars

-----------------------------------------------------------------------------
(* Vocabulary of the properties                                             *)

Nudge == "Requested image attached\r"
WindowMs == 300000

IsPrefix(s, t) == Len(s) <= Len(t) /\ SubSeq(t, 1, Len(s)) = s

\* The restart r ran the step and the step did not throw.
Succeeded(r, step) ==
    \E i \in 1..Len(r.trace) :
        r.trace[i] = step /\ (i < Len(r.trace) \/ r.error = "")

\* The step whose failure produces the diagnostic err.
StepOfError(err) ==
    CASE startsWith(err, "Too many restarts") -> "admit"
      [] startsWith(err, "No valid image request") -> "lookup"
      [] startsWith(err, "Image path must be relative") -> "validate"
      [] startsWith(err, "Path traversal rejected") -> "validate"
      [] startsWith(err, "Unsupported image extension") -> "validate"
      [] startsWith(err, "Requested image does not exist") -> "validate"
      [] startsWith(err, "Failed to start") -> "spawn"
      [] err = KillError -> "kill"
      [] err = WriteError -> "nudge"
      [] OTHER -> "none"

\* The lines of a log that hold an object whose path is a string with a
\* character that is not white space.
UsablePathLines(log) ==
    {i \in 1..Len(log) :
        /\ log[i].kind = "object"
        /\ log[i].ptype = "string"
        /\ \E k \in 1..Len(log[i].path) : ~IsSpace(Char(log[i].path, k))}

\* The lines of a log that hold an object whose path is a non-empty string.
NonEmptyPathLines(log) ==
    {i \in 1..Len(log) :
        log[i].kind = "object" /\ log[i].ptype = "string" /\ log[i].path # ""}

Latest(S) == CHOOSE i \in S : \A j \in S : j <= i

\* The names along a path, without empty segments.
Names(p) == SelectSeq(split(p, "/"), LAMBDA s : s # "")

\* What validation against the root has to say about candidate c.
PathVerdict(c) ==
    LET resolved == resolve("/repo", c)
    IN  IF c # "" /\ Char(c, 1) = "/" THEN "absolute"
        ELSE IF ~IsPrefix(Names("/repo"), Names(resolved)) THEN "traversal"
        ELSE IF toLowerCase(extname(resolved)) \notin {".png", ".jpg", ".jpeg", ".webp"}
             THEN "extension"
        ELSE IF resolved \notin files THEN "missing"
        ELSE "accepted"

\* The rejection reason a validator's message stands for.
ErrorVariant(msg) ==
    CASE startsWith(msg, "Image path must be relative") -> "absolute"
      [] startsWith(msg, "path must be relative") -> "absolute"
      [] startsWith(msg, "Path traversal rejected") -> "traversal"
      [] startsWith(msg, "path traversal is not allowed") -> "traversal"
      [] startsWith(msg, "Unsupported image extension") -> "extension"
      [] startsWith(msg, "unsupported extension") -> "extension"
      [] startsWith(msg, "Requested image does not exist") -> "missing"
      [] startsWith(msg, "file does not exist") -> "missing"
      [] OTHER -> "other"

\* The marker is in neither chunk and in the two put together.
SplitAcross(c1, c2) ==
    /\ ~includes(c1, "<<WAITING_FOR_IMAGE>>")
    /\ ~includes(c2, "<<WAITING_FOR_IMAGE>>")
    /\ includes(c1 \o c2, "<<WAITING_FOR_IMAGE>>")

\* The last n characters of s, all of s when it is shorter.
LastChars(s, n) == IF Len(s) > n THEN SubSeq(s, Len(s) - n + 1, Len(s)) ELSE s

\* A step of the wrapper that is a call of restartWithRequestedImage.
RestartStep == restarts' = restarts + 1

\* The ordinal, within the window ending now, of a restart attempted now.
AttemptInWindow ==
    Cardinality({i \in 1..Len(restartTimestamps) :
                    Now - restartTimestamps[i] < WindowMs}) + 1

-----------------------------------------------------------------------------
(* C1: every restart performs admission, lookup, validation, spawn, kill    *)
(* and nudge in that order; no step runs after one that failed (the host   *)
(* exits instead); when all six succeed the in-flight guard is clear, the  *)
(* host is running and the newly spawned session is the active one.        *)

C1_Order == <<"admit", "lookup", "validate", "spawn", "kill", "nudge">>

-----------------------------------------------------------------------------
(* C4: counting restart attempts inside one 5-minute window, attempts 1..5 *)
(* pass the limiter and, when the rest of the restart succeeds, replace    *)
(* the session, whose input then holds the nudge exactly once; attempt 6   *)
(* is rejected as too many restarts, spawns nothing and the host exits 1.  *)

C4_Burst ==
    /\ [][RestartStep =>
            LET r == lastRestart'
                k == AttemptInWindow
                new == Len(procs) + 1
            IN  /\ k <= 6
                /\ k <= 5 => /\ StepOfError(r.error) # "admit"
                             /\ Len(r.trace) > 1
                /\ (k <= 5 /\ r.error = "") =>
                        /\ codexProcess' = new
                        /\ Len(procs') = new
                        /\ procs'[new].written = <<Nudge>>
                        /\ procs'[codexProcess].killed
                        /\ host' = "running"
                /\ k = 6 => /\ StepOfError(r.error) = "admit"
                            /\ procs' = procs
                            /\ codexProcess' = codexProcess
                            /\ host' = "exited"
                            /\ exitCode' = 1
       ]_vars
    /\ [](host = "running" =>
            \A p \in 2..Len(procs) : procs[p].written = <<Nudge>>)

C4_Witness ==
    /\ host = "exited"
    /\ exitCode = 1
    /\ StepOfError(lastRestart.error) = "admit"
    /\ restarts = 6
    /\ Len(procs) = 6
    /\ clock = 1
    /\ \A p \in 2..6 : procs[p].written = <<Nudge>>

-----------------------------------------------------------------------------
(* C10: a restart in which a step fails -- the rate limit exceeded, no     *)
(* usable request, an invalid path, a spawn, kill or write error -- writes *)
(* a diagnostic, leaves the terminal out of raw mode and exits the host    *)
(* with code 1, for good; a failure before the spawn leaves the children   *)
(* and the active reference untouched: nothing spawned, nothing nudged.    *)

C10_FatalRestart ==
    /\ [][RestartStep =>
            LET r == lastRestart'
                q == UsablePathLines(requestsFile)
                early == \/ AttemptInWindow > 5
                         \/ q = {}
                         \/ PathVerdict(requestsFile[Latest(q)].path) # "accepted"
            IN  /\ early => /\ StepOfError(r.error) \in {"admit", "lookup", "validate"}
                            /\ procs' = procs
                            /\ codexProcess' = codexProcess
                /\ StepOfError(r.error) = "spawn" => procs' = procs
                /\ r.error # "" => /\ host' = "exited"
                                   /\ exitCode' = 1
                                   /\ stderr' = "[codex-eyes] " \o r.error \o "\n"
                                   /\ rawMode' = FALSE
                /\ r.error = "" => ~early /\ host' = "running" /\ stderr' = stderr
       ]_vars
    /\ [][host = "exited" => host' = "exited" /\ exitCode' = exitCode]_vars

C10_Witness ==
    /\ host = "exited"
    /\ exitCode = 1
    /\ isTTY
    /\ rawModeEnabled
    /\ ~rawMode
    /\ restarts = 1
    /\ Len(procs) = 1
    /\ procs[1].written = <<>>
    /\ stderr = "[codex-eyes] Path traversal rejected: image path escapes repository root.\n"

-----------------------------------------------------------------------------
(* C2: the first session gets exactly the host's own arguments; a session  *)
(* spawned by a restart gets exactly --continue, -i and the validated form *)
(* of the path of the latest usable line the log holds at that restart.    *)

-----------------------------------------------------------------------------
(* C3 as stated: every original launch argument is among the arguments of  *)
(* every session spawned by a restart.                                     *)

C3_OriginalArgsKept ==
    \A p \in 2..Len(procs) :
        \A k \in 1..Len(initialArgs) :
            \E j \in 1..Len(procs[p].args) : procs[p].args[j] = initialArgs[k]

(* C3 as amended: a session spawned by a restart is launched with three    *)
(* arguments only, the resume flag, the attach flag and a path; the        *)
(* original launch arguments are not carried over.                         *)

C3_RestartArgsOnly ==
    \A p \in 2..Len(procs) :
        /\ Len(procs[p].args) = 3
        /\ procs[p].args[1] = "--continue"
        /\ procs[p].args[2] = "-i"
        /\ procs[p].args[3] \notin {"--continue", "-i"}
        /\ initialArgs # <<>> => ~IsPrefix(initialArgs, procs[p].args)

C3_Witness ==
    /\ Len(procs) >= 2
    /\ initialArgs = <<"--model", "o3">>
    /\ host = "running"

-----------------------------------------------------------------------------
(* C5: an exit notification from a child that is not the active one leaves *)
(* the host running; one from the active child, with no restart in flight, *)
(* ends the host, with the child's exit code when it carries a number.     *)

C5_ExitFilter ==
    [][\A p \in 1..Len(procs) :
          (procs[p].exit = NotExited /\ procs'[p].exit # NotExited) =>
              /\ p # codexProcess => /\ host' = "running"
                                     /\ exitCode' = -1
                                     /\ codexProcess' = codexProcess
              /\ (p = codexProcess /\ ~restartInFlight) =>
                    /\ host' = "exited"
                    /\ procs'[p].exit.type = "number" => exitCode' = procs'[p].exit.n
    ]_vars

C5_Witness ==
    /\ Len(procs) = 2
    /\ codexProcess = 2
    /\ procs[1].killed
    /\ procs[1].exit = NumberCode(0)
    /\ procs[2].exit = NumberCode(7)
    /\ host = "exited"
    /\ exitCode = 7

-----------------------------------------------------------------------------
(* C6 as stated: the reader returns the path of the last line that parses  *)
(* as an object with a non-empty string path, and fails with the           *)
(* no-request error exactly when there is no such line.                    *)

C6_LastNonEmpty ==
    call.fn = "getLastRequestedPath" =>
        LET q == NonEmptyPathLines(call.arg)
        IN  IF q = {}
            THEN ~call.result.ok
            ELSE call.result = Returned(call.arg[Latest(q)].path)

(* C6 as amended: the reader returns the path of the last line that parses *)
(* as an object whose path is a string with a character that is not white  *)
(* space, whatever lines precede or follow it, and fails with the          *)
(* no-request error exactly when there is no such line; no other failure.  *)

C6_LastUsable ==
    call.fn = "getLastRequestedPath" =>
        LET q == UsablePathLines(call.arg)
        IN  IF q = {}
            THEN call.result =
                    Thrown("No valid image request found in .codex-eyes/requests.jsonl.")
            ELSE call.result = Returned(call.arg[Latest(q)].path)

C6_Witness ==
    /\ call.fn = "getLastRequestedPath"
    /\ call.arg = <<ReqB, ObjectLine(8, "string", "  "), Garbage>>
    /\ call.result = Returned("img/b.JPG")

-----------------------------------------------------------------------------
(* C7: both validators reject a candidate with the variant that matches    *)
(* the first of: absolute, resolving outside the root, extension outside   *)
(* the allow-list, no file at the resolved location; they accept exactly   *)
(* when none of the four holds.                                            *)

C7_Variants ==
    /\ call.fn = "resolveSafeImagePath" =>
          IF call.result.ok
          THEN PathVerdict(call.arg) = "accepted"
          ELSE ErrorVariant(call.result.error) = PathVerdict(call.arg)
    /\ (/\ call.fn = "toSafeRepoRelativePath"
        /\ call.arg.type = "string"
        /\ \E k \in 1..Len(call.arg.s) : ~IsSpace(Char(call.arg.s, k))) =>
          IF call.result.ok
          THEN PathVerdict(call.arg.s) = "accepted"
          ELSE ErrorVariant(call.result.error) = PathVerdict(call.arg.s)

C7_Witness ==
    /\ call.fn = "resolveSafeImagePath"
    /\ call.arg = "../repo2/a.png"
    /\ "/repo2/a.png" \in files
    /\ call.result = Thrown("Path traversal rejected: image path escapes repository root.")

-----------------------------------------------------------------------------
(* C8: whenever a validator accepts a candidate, the string it returns     *)
(* begins with the two characters "./".                                    *)

C8_DotSlash ==
    (call.fn \in {"resolveSafeImagePath", "toSafeRepoRelativePath"} /\ call.result.ok) =>
        startsWith(call.result.value, "./")

-----------------------------------------------------------------------------
(* C9: with no restart in flight, a marker split across two consecutive    *)
(* chunks that together fit the retained tail (8 times the marker length)  *)
(* starts no restart on the first chunk and exactly one on the second,     *)
(* which empties the tail; a chunk that completes no marker starts none.   *)

C9_SplitMarker ==
    /\ [][\A c2 \in MonitorChunks :
            onCodexOutput(codexProcess, c2) =>
                /\ (\E c1 \in MonitorChunks :
                       /\ SplitAcross(c1, c2)
                       /\ Len(c1) + Len(c2) <= 8 * Len("<<WAITING_FOR_IMAGE>>")
                       /\ endsWith(outputTail, c1)
                       /\ ~restartInFlight) =>
                      (restarts' = restarts + 1 /\ outputTail' = "")
                /\ ~includes(outputTail \o c2, "<<WAITING_FOR_IMAGE>>") =>
                      restarts' = restarts
                /\ restarts' \in {restarts, restarts + 1}
       ]_vars
    /\ [](~includes(outputTail, "<<WAITING_FOR_IMAGE>>"))

C9_Witness ==
    /\ call.fn = "onCodexOutput"
    /\ call.arg[2] = SplitTail
    /\ call.result.value = PaddedHead
    /\ restarts = 1
    /\ outputTail = ""
    /\ host = "running"
    /\ codexProcess = 2

-----------------------------------------------------------------------------
(* C11: a signal handled while the host runs kills the child that is       *)
(* active at that moment, then restores the terminal, then exits, with 130 *)
(* for an interrupt and 143 for a terminate; the codes differ from each    *)
(* other and from the fatal code 1; nothing is spawned by or after it.     *)

C11_Signals ==
    /\ [][(SIGINT \/ SIGTERM) =>
            /\ procs' = [procs EXCEPT ![codexProcess].killed = TRUE]
            /\ codexProcess' = codexProcess
            /\ call'.result.value = "kill,restore,exit"
            /\ rawMode' = FALSE
            /\ host' = "exited"
            /\ exitCode' = (IF SIGINT THEN 130 ELSE 143)
            /\ exitCode' \notin {0, 1}
       ]_vars
    /\ [][host = "exited" => procs' = procs /\ exitCode' = exitCode]_vars
    /\ [](exitCode \in {130, 143} => call.fn = "onSignal")

C11_Witness ==
    /\ host = "exited"
    /\ exitCode = 143
    /\ isTTY
    /\ ~rawMode
    /\ Len(procs) = 2
    /\ codexProcess = 2
    /\ procs[2].killed
    /\ procs[2].exit = NotExited

-----------------------------------------------------------------------------
(* C12: a request_image call whose path passes validation appends exactly  *)
(* one line, holding the time and the validated path, to the request log;  *)
(* a rejected call (invalid path, unknown tool) leaves the log as it was;  *)
(* no call touches the children, the active reference or the restarts.     *)

C12_ToolCall ==
    [][(/\ call'.fn = "callTool"
        /\ (call.fn # "callTool" \/ call'.arg # call.arg \/ requestsFile' # requestsFile)) =>
          LET name == call'.arg[1]
              arg == call'.arg[2]
          IN  /\ procs' = procs
              /\ codexProcess' = codexProcess
              /\ restarts' = restarts
              /\ restartTimestamps' = restartTimestamps
              /\ host' = host
              /\ IF /\ name = "request_image"
                    /\ arg.type = "string"
                    /\ PathVerdict(arg.s) = "accepted"
                 THEN /\ call'.result.ok
                      /\ Len(requestsFile') = Len(requestsFile) + 1
                      /\ IsPrefix(requestsFile, requestsFile')
                      /\ LET line == requestsFile'[Len(requestsFile')]
                         IN  /\ line.kind = "object"
                             /\ line.ts = Now
                             /\ line.ptype = "string"
                             /\ resolve("/repo", line.path) = resolve("/repo", arg.s)
                 ELSE /\ ~call'.result.ok
                      /\ requestsFile' = requestsFile
    ]_vars

C12_Witness ==
    /\ call.fn = "callTool"
    /\ call.arg = <<"request_image", StringArg("a.png")>>
    /\ requestsFile = <<ReqB, Garbage, ObjectLine(0, "string", "./a.png")>>
    /\ Len(procs) = 2
    /\ restarts = 1

-----------------------------------------------------------------------------
(* C13: in every restart that starts a replacement child, the kill of the  *)
(* current child comes before the spawn, and no two children are left      *)
(* un-killed side by side.                                                 *)

C13_KillBeforeSpawn ==
    /\ Succeeded(lastRestart, "spawn") =>
          \E i, j \in 1..Len(lastRestart.trace) :
              i < j /\ lastRestart.trace[i] = "kill" /\ lastRestart.trace[j] = "spawn"
    /\ \A p, q \in 1..Len(procs) : p # q => procs[p].killed \/ procs[q].killed

-----------------------------------------------------------------------------
(* C14: restarts never overlap.  The guard is clear whenever the host can  *)
(* take an event, a step performs at most one restart, the monitor's test  *)
(* refuses every tail while the guard is set, and a restart leaves an      *)
(* empty tail behind, so a marker seen before it is not acted on again.    *)

C14_OneAtATime ==
    /\ [](host = "running" => ~restartInFlight)
    /\ [](restartInFlight =>
            /\ ~markerSeen("<<WAITING_FOR_IMAGE>>")
            /\ ~markerSeen(retainTail(appendTail(outputTail, "<<WAITING_FOR_IMAGE>>"))))
    /\ [][restarts' \in {restarts, restarts + 1}]_vars
    /\ [][restartInFlight => restarts' = restarts]_vars
    /\ [][RestartStep => outputTail' = ""]_vars

C14_Witness ==
    /\ restartInFlight
    /\ host = "exited"
    /\ restarts = 1
    /\ outputTail = ""
    /\ lastRestart.trace = <<"admit", "lookup", "validate">>

-----------------------------------------------------------------------------
(* C15: a restart in which the kill of the prior child fails still writes  *)
(* the nudge into the new child and clears the guard, and the host does    *)
(* not exit with the fatal code because of it.                             *)

C15_KillBestEffort ==
    (/\ Succeeded(lastRestart, "spawn")
     /\ \E i \in 1..Len(lastRestart.trace) : lastRestart.trace[i] = "kill"
     /\ ~Succeeded(lastRestart, "kill")) =>
        /\ \E i \in 1..Len(lastRestart.trace) : lastRestart.trace[i] = "nudge"
        /\ procs[lastRestart.codexProcess].written # <<>>
        /\ ~restartInFlight
        /\ exitCode # 1

-----------------------------------------------------------------------------
(* C16 as stated: the restart window holds at most 5 timestamps at the end *)
(* of every admission check, a rejected one included.                      *)

C16_AtMostMax == Len(restartTimestamps) <= 5

(* C16 as amended: the restart window holds at most 5 timestamps at the    *)
(* end of every check that admits and exactly 6 at the end of a check that *)
(* rejects, the rejected attempt being recorded too; the host runs on only *)
(* with at most 5.                                                         *)

C16_MaxOrOneMore ==
    /\ Len(restartTimestamps) <= 5 + 1
    /\ host = "running" => Len(restartTimestamps) <= 5
    /\ StepOfError(lastRestart.error) = "admit" <=> Len(restartTimestamps) = 5 + 1

C16_Witness ==
    /\ Len(restartTimestamps) = 6
    /\ host = "exited"
    /\ Len(procs) = 6
    /\ clock = 1

-----------------------------------------------------------------------------
(* C17: an admission at time now removes exactly the timestamps with       *)
(* now - ts > 5 minutes, keeps the others (age equal to the window         *)
(* included), appends now, and rejects exactly when more than 5 remain.    *)

C17_PruneOlderOnly ==
    [][RestartStep =>
        LET kept == SelectSeq(restartTimestamps, LAMBDA ts : ~(Now - ts > WindowMs))
        IN  /\ restartTimestamps' = Append(kept, Now)
            /\ StepOfError(lastRestart'.error) = "admit" <=> Len(kept) + 1 > 5
    ]_vars

-----------------------------------------------------------------------------
(* C18: while the host runs there is exactly one active child, the one     *)
(* spawned last; the reference changes only at the initial launch and in   *)
(* a restart; local input and resizes reach the child active at that       *)
(* moment, and a replaced child receives nothing any more.                 *)

C18_OneActive ==
    /\ [](host = "running" => (codexProcess >= 1 /\ codexProcess = Len(procs)))
    /\ [][codexProcess' # codexProcess => (RestartStep \/ host = "starting")]_vars
    /\ [][Stdin => procs' = [procs EXCEPT ![codexProcess].written = Append(@, "y")]]_vars
    /\ [][Resize => procs' = [procs EXCEPT ![codexProcess].resizes = 1]]_vars
    /\ [][\A p \in 1..Len(procs) :
            p # codexProcess => /\ procs'[p].written = procs[p].written
                                /\ procs'[p].resizes = procs[p].resizes]_vars

C18_Witness ==
    /\ host = "running"
    /\ Len(procs) = 2
    /\ codexProcess = 2
    /\ procs[1].written = <<"y">>
    /\ procs[1].resizes = 0
    /\ procs[2].written = <<Nudge, "y">>
    /\ procs[2].resizes = 1

-----------------------------------------------------------------------------
(* C19: a restart is started only by output of the child that is active    *)
(* when the output arrives; a chunk from a replaced child starts none.     *)

C19_StaleOutputInert ==
    [][\A p \in 1..Len(procs), data \in Chunks :
          (onCodexOutput(p, data) /\ p # codexProcess) => restarts' = restarts
    ]_vars

-----------------------------------------------------------------------------
(* C20 as stated: with no restart in flight, every chunk of the active     *)
(* child that contains or completes the marker starts a restart during     *)
(* that feed, whatever its length and whatever follows the marker in it.   *)

C20_NeverMissed ==
    [][\A c \in MonitorChunks :
          (/\ onCodexOutput(codexProcess, c)
           /\ ~restartInFlight
           /\ includes(outputTail \o c, "<<WAITING_FOR_IMAGE>>")) =>
              restarts' = restarts + 1
    ]_vars

(* C20 as amended: with no restart in flight, every chunk of the active    *)
(* child after which the whole marker lies within the last 168 characters  *)
(* (8 marker lengths) of the output so far starts a restart during that    *)
(* feed; a marker pushed out of that reach by what follows it is missed.   *)

C20_WithinReach ==
    [][\A c \in MonitorChunks :
          (onCodexOutput(codexProcess, c) /\ ~restartInFlight) =>
              IF includes(LastChars(outputTail \o c, 168), "<<WAITING_FOR_IMAGE>>")
              THEN restarts' = restarts + 1
              ELSE restarts' = restarts
    ]_vars

C20_Witness ==
    /\ call.fn = "onCodexOutput"
    /\ call.arg[2] = WAIT_MARKER
    /\ call.result.value = Filler
    /\ restarts = 2
    /\ outputTail = ""
    /\ host = "running"

====
